---- MODULE Spec2Model ----
(***************************************************************************)
(* Model of the checker controller of romberli/pd                          *)
(* (server/schedule/checker_controller.go).                                *)
(*                                                                         *)
(* The controller owns seven checkers, a bounded waiting list and reads    *)
(* three collaborators: the cluster (what each checker's Check returns for *)
(* the region under examination), the persisted options (placement rules   *)
(* flag, schedule limits) and the operator controller (in-flight operator  *)
(* counts).  CheckRegion is one atomic action; the collaborators change    *)
(* between calls through the environment actions below.                    *)
(***************************************************************************)
EXTENDS Integers, Sequences, FiniteSets

(***************************************************************************)
(* Program constants and bounds                                            *)
(***************************************************************************)
\* const DefaultCacheSize = 1000
DefaultCacheSize == 1000

\* Bound on the capacity the model gives the waiting list (the capacity of
\* the program, DefaultCacheSize, is scaled down to it).
MaxCacheSize == 1

\* Bound on the total number of limit-exceeded increments in one behaviour.
MaxLimitExceeded == 2

\* Bound on the in-flight operator count of one category (above the
\* schedule limits below, so that counts under, at and over the limit occur).
MaxOperatorCount == 2

\* Region identifiers of the model.
RegionIDs == {1, 2}

\* The seven checkers of the controller, by the name GetPauseController
\* knows them under.
CheckerNames ==
    {"learner", "replica", "rule", "split", "merge", "joint-state", "priority"}

\* Names handed to GetPauseController: the seven names and near misses.
LookupNames ==
    CheckerNames \cup {"", "Learner", "joint", "joint_state", "rule-checker", "all"}

\* operator.OpReplica, operator.OpMerge
OpKinds == {"replica", "merge"}

\* Labels of operator.OperatorLimitCounter: <<checker type, operator kind>>.
CounterLabels == {"rule", "replica", "merge"} \X OpKinds

\* Patrol workers of the driver that may be inside a CheckRegion call or
\* between its return and the admission of what it returned.
Workers == {1, 2}

VARIABLES
    verdict,            \* cluster: verdict[ch] = ch's Check returns non-nil for
                        \* the region examined next (priority: fit != nil)
    rulesEnabled,       \* c.opts.IsPlacementRulesEnabled()
    opCount,            \* opController.OperatorCount(kind)
    regionWaitingList,  \* c.regionWaitingList, oldest entry first
    priorityQueue,      \* queue of c.priorityChecker
    limitCounter,       \* operator.OperatorLimitCounter, per label
    last,               \* record of the last call on the controller
    lastBlocked,        \* history: regions whose most recent CheckRegion
                        \* ended with the rule/replica fix limit-blocked
    paused,             \* checkers whose PauseController is paused
    pending             \* pending[w]: what the CheckRegion call of patrol
                        \* worker w returned and the driver has not yet
                        \* handed to the operator controller

vars == <<verdict, rulesEnabled, opCount, regionWaitingList, priorityQueue,
          limitCounter, last, lastBlocked, paused, pending>>

(***************************************************************************)
(* Helpers                                                                 *)
(***************************************************************************)
Range(s) == {s[i] : i \in 1..Len(s)}

Min(a, b) == IF a < b THEN a ELSE b

\* An operator proposed by checker ch for region r (part: position in the
\* slice the checker returns).
Op(ch, r, part) == [checker |-> ch, region |-> r, part |-> part]

\* a worker with no result in hand
Idle == <<>>

\* what checker ch's Check answers for the region examined next: a paused
\* checker answers nil (priority: an absent fit), whatever the region
Answer(ch) == verdict[ch] /\ ch \notin paused

NoCall ==
    [op |-> "none", region |-> 0, name |-> "", ops |-> <<>>,
     consulted |-> <<>>, reads |-> {}, items |-> <<>>, ids |-> {},
     pause |-> "nil", err |-> ""]

(***************************************************************************)
(* The construction: NewCheckerController                                  *)
(***************************************************************************)
\* Mutant: the cache is built one entry too large.
CacheSizePlusOne == Min(DefaultCacheSize, MaxCacheSize) + 1

\* regionWaitingList := cache.NewDefaultCache(DefaultCacheSize)
CacheSize == Min(DefaultCacheSize, MaxCacheSize)

(***************************************************************************)
(* cache.Cache, as the controller uses it: Put, Remove, Elems              *)
(***************************************************************************)
CachePut(list, id) ==
    IF id \in Range(list) THEN list
    ELSE IF Len(list) >= CacheSize THEN Append(Tail(list), id)
    ELSE Append(list, id)

CacheRemove(list, id) == SelectSeq(list, LAMBDA x : x # id)

CacheElems(list) == list

(***************************************************************************)
(* The persisted options read by CheckRegion                               *)
(***************************************************************************)
\* c.opts.GetReplicaScheduleLimit(), as the model configures it
GetReplicaScheduleLimit == 1

\* c.opts.GetMergeScheduleLimit(), as the model configures it
GetMergeScheduleLimit == 1

(***************************************************************************)
(* CheckRegion, step by step.  Each step yields an outcome: whether the    *)
(* call returns there, the operators returned, the checkers consulted (in  *)
(* order), the options and counts read, whether the region is put on the   *)
(* waiting list and the counter labels incremented.                        *)
(***************************************************************************)
Outcome(returned, ops, consulted, reads, put, inc) ==
    [returned |-> returned, ops |-> ops, consulted |-> consulted,
     reads |-> reads, put |-> put, inc |-> inc]

\* sequential composition: b runs only if a did not return
Then(a, b) ==
    IF a.returned THEN a
    ELSE LET rest == b IN
         [rest EXCEPT !.consulted = a.consulted \o @,
                      !.reads = a.reads \cup @,
                      !.put = a.put \/ @,
                      !.inc = a.inc \cup @]

\* if op := c.jointStateChecker.Check(region); op != nil { return {op} }
JointStateStep(r) ==
    IF Answer("joint-state")
    THEN Outcome(TRUE, <<Op("joint-state", r, 1)>>, <<"joint-state">>, {}, FALSE, {})
    ELSE Outcome(FALSE, <<>>, <<"joint-state">>, {}, FALSE, {})

\* if op := c.splitChecker.Check(region); op != nil { return {op} }
SplitStep(r) ==
    IF Answer("split")
    THEN Outcome(TRUE, <<Op("split", r, 1)>>, <<"split">>, {}, FALSE, {})
    ELSE Outcome(FALSE, <<>>, <<"split">>, {}, FALSE, {})

\* Mutant: <= in place of <.
ReplicaAllowedInclusive == opCount["replica"] <= GetReplicaScheduleLimit

\* Mutant: one slot is always kept free.
ReplicaAllowedOffByOne == opCount["replica"] + 1 < GetReplicaScheduleLimit

\* opController.OperatorCount(operator.OpReplica) < c.opts.GetReplicaScheduleLimit()
ReplicaAllowed == opCount["replica"] < GetReplicaScheduleLimit

\* Mutant: a merge count equal to the limit still lets a merge through.
MergeAllowedInclusive == opCount["merge"] <= GetMergeScheduleLimit

\* opController.OperatorCount(operator.OpMerge) < c.opts.GetMergeScheduleLimit()
MergeAllowed == opCount["merge"] < GetMergeScheduleLimit

\* Mutant: the region is put on the waiting list before the limit is tested.
RulesBranchPutFirst(r) ==
    IF Answer("priority")
    THEN IF Answer("rule")
         THEN IF ReplicaAllowed
              THEN Outcome(TRUE, <<Op("rule", r, 1)>>, <<"priority", "rule">>,
                           {"rules", "replica"}, TRUE, {})
              ELSE Outcome(FALSE, <<>>, <<"priority", "rule">>,
                           {"rules", "replica"}, TRUE, {<<"rule", "replica">>})
         ELSE Outcome(FALSE, <<>>, <<"priority", "rule">>, {"rules"}, FALSE, {})
    ELSE Outcome(FALSE, <<>>, <<"priority">>, {"rules"}, FALSE, {})

\* Mutant: the rule checker is asked even when the fit is absent.
RulesBranchNilFit(r) ==
    IF Answer("rule")
    THEN IF ReplicaAllowed
         THEN Outcome(TRUE, <<Op("rule", r, 1)>>, <<"priority", "rule">>,
                      {"rules", "replica"}, FALSE, {})
         ELSE Outcome(FALSE, <<>>, <<"priority", "rule">>,
                      {"rules", "replica"}, TRUE, {<<"rule", "replica">>})
    ELSE Outcome(FALSE, <<>>, <<"priority", "rule">>, {"rules"}, FALSE, {})

\* Mutant: the increment carries the replica checker's type.
RulesBranchReplicaLabel(r) ==
    IF Answer("priority")
    THEN IF Answer("rule")
         THEN IF ReplicaAllowed
              THEN Outcome(TRUE, <<Op("rule", r, 1)>>, <<"priority", "rule">>,
                           {"rules", "replica"}, FALSE, {})
              ELSE Outcome(FALSE, <<>>, <<"priority", "rule">>,
                           {"rules", "replica"}, TRUE, {<<"replica", "replica">>})
         ELSE Outcome(FALSE, <<>>, <<"priority", "rule">>, {"rules"}, FALSE, {})
    ELSE Outcome(FALSE, <<>>, <<"priority">>, {"rules"}, FALSE, {})

\* the branch taken when placement rules are enabled
RulesBranch(r) ==
    IF Answer("priority")
    THEN IF Answer("rule")
         THEN IF ReplicaAllowed
              THEN Outcome(TRUE, <<Op("rule", r, 1)>>, <<"priority", "rule">>,
                           {"rules", "replica"}, FALSE, {})
              ELSE Outcome(FALSE, <<>>, <<"priority", "rule">>,
                           {"rules", "replica"}, TRUE, {<<"rule", "replica">>})
         ELSE Outcome(FALSE, <<>>, <<"priority", "rule">>, {"rules"}, FALSE, {})
    ELSE Outcome(FALSE, <<>>, <<"priority">>, {"rules"}, FALSE, {})

\* Mutant: the Put is outside the test of the replica checker's answer.
NonRulesBranchPutOnDecline(r) ==
    IF Answer("learner")
    THEN Outcome(TRUE, <<Op("learner", r, 1)>>, <<"learner">>, {"rules"}, FALSE, {})
    ELSE IF Answer("replica")
         THEN IF ReplicaAllowed
              THEN Outcome(TRUE, <<Op("replica", r, 1)>>, <<"learner", "replica">>,
                           {"rules", "replica"}, FALSE, {})
              ELSE Outcome(FALSE, <<>>, <<"learner", "replica">>,
                           {"rules", "replica"}, TRUE, {<<"replica", "replica">>})
         ELSE Outcome(FALSE, <<>>, <<"learner", "replica">>, {"rules"}, TRUE, {})

\* Mutant: the learner and the replica operators are collected and returned
\* together.
NonRulesBranchCollects(r) ==
    IF Answer("learner") /\ Answer("replica") /\ ReplicaAllowed
    THEN Outcome(TRUE, <<Op("learner", r, 1), Op("replica", r, 1)>>,
                 <<"learner", "replica">>, {"rules", "replica"}, FALSE, {})
    ELSE IF Answer("learner")
    THEN Outcome(TRUE, <<Op("learner", r, 1)>>, <<"learner">>, {"rules"}, FALSE, {})
    ELSE IF Answer("replica")
         THEN IF ReplicaAllowed
              THEN Outcome(TRUE, <<Op("replica", r, 1)>>, <<"learner", "replica">>,
                           {"rules", "replica"}, FALSE, {})
              ELSE Outcome(FALSE, <<>>, <<"learner", "replica">>,
                           {"rules", "replica"}, TRUE, {<<"replica", "replica">>})
         ELSE Outcome(FALSE, <<>>, <<"learner", "replica">>, {"rules"}, FALSE, {})

\* Mutant: the learner operator goes through the replica limit gate too.
NonRulesBranchLearnerGated(r) ==
    IF Answer("learner")
    THEN IF ReplicaAllowed
         THEN Outcome(TRUE, <<Op("learner", r, 1)>>, <<"learner">>,
                      {"rules", "replica"}, FALSE, {})
         ELSE Outcome(FALSE, <<>>, <<"learner">>, {"rules", "replica"}, TRUE,
                      {<<"replica", "replica">>})
    ELSE IF Answer("replica")
         THEN IF ReplicaAllowed
              THEN Outcome(TRUE, <<Op("replica", r, 1)>>, <<"learner", "replica">>,
                           {"rules", "replica"}, FALSE, {})
              ELSE Outcome(FALSE, <<>>, <<"learner", "replica">>,
                           {"rules", "replica"}, TRUE, {<<"replica", "replica">>})
         ELSE Outcome(FALSE, <<>>, <<"learner", "replica">>, {"rules"}, FALSE, {})

\* the branch taken when placement rules are disabled
NonRulesBranch(r) ==
    IF Answer("learner")
    THEN Outcome(TRUE, <<Op("learner", r, 1)>>, <<"learner">>, {"rules"}, FALSE, {})
    ELSE IF Answer("replica")
         THEN IF ReplicaAllowed
              THEN Outcome(TRUE, <<Op("replica", r, 1)>>, <<"learner", "replica">>,
                           {"rules", "replica"}, FALSE, {})
              ELSE Outcome(FALSE, <<>>, <<"learner", "replica">>,
                           {"rules", "replica"}, TRUE, {<<"replica", "replica">>})
         ELSE Outcome(FALSE, <<>>, <<"learner", "replica">>, {"rules"}, FALSE, {})

\* Mutant: the else is lost, the non-rules branch runs after the rules branch.
PlacementStepBoth(r) ==
    IF rulesEnabled THEN Then(RulesBranch(r), NonRulesBranch(r))
    ELSE NonRulesBranch(r)

\* Mutant: an absent fit sends the call to the learner and replica checkers.
PlacementStepFallsBack(r) ==
    IF rulesEnabled /\ Answer("priority") THEN RulesBranch(r)
    ELSE NonRulesBranch(r)

\* if c.opts.IsPlacementRulesEnabled() { ... } else { ... }
PlacementStep(r) == IF rulesEnabled THEN RulesBranch(r) ELSE NonRulesBranch(r)

\* c.mergeChecker.Check(region): nil, or the two operators of a merge
MergeCheck(r) ==
    IF Answer("merge") THEN <<Op("merge", r, 1), Op("merge", r, 2)>> ELSE <<>>

\* Mutant: only the first operator of the merge is returned.
MergeStepFirstOnly(r) ==
    IF ~MergeAllowed
    THEN Outcome(FALSE, <<>>, <<>>, {"merge"}, FALSE, {<<"merge", "merge">>})
    ELSE IF MergeCheck(r) # <<>>
         THEN Outcome(TRUE, <<MergeCheck(r)[1]>>, <<"merge">>, {"merge"}, FALSE, {})
         ELSE Outcome(FALSE, <<>>, <<"merge">>, {"merge"}, FALSE, {})

\* Mutant: the merge checker is asked first and the gate applies to its
\* answer, as in the replica branches.
MergeStepConsultFirst(r) ==
    IF MergeCheck(r) # <<>>
    THEN IF MergeAllowed
         THEN Outcome(TRUE, MergeCheck(r), <<"merge">>, {"merge"}, FALSE, {})
         ELSE Outcome(FALSE, <<>>, <<"merge">>, {"merge"}, FALSE,
                      {<<"merge", "merge">>})
    ELSE Outcome(FALSE, <<>>, <<"merge">>, {}, FALSE, {})

\* if c.mergeChecker != nil { allowed := ...; if !allowed { Inc } else { ... } }
MergeStep(r) ==
    IF ~MergeAllowed
    THEN Outcome(FALSE, <<>>, <<>>, {"merge"}, FALSE, {<<"merge", "merge">>})
    ELSE IF MergeCheck(r) # <<>>
         THEN Outcome(TRUE, MergeCheck(r), <<"merge">>, {"merge"}, FALSE, {})
         ELSE Outcome(FALSE, <<>>, <<"merge">>, {"merge"}, FALSE, {})

\* c.priorityChecker.Check(region), as far as the queue goes: the fit is
\* verdict["priority"]; the call is given no effect on the queue
PriorityCheckQueue(q, r) == q

\* Mutant: the split checker is asked before the joint-state checker.
CheckRegionCallSplitFirst(r) ==
    LET j == JointStateStep(r)
        s == SplitStep(r)
        p == PlacementStep(r)
        m == MergeStep(r)
    IN  Then(s, Then(j, Then(p, m)))

\* Mutant: a deferral ends the call (return nil after the Put).
CheckRegionCallDeferReturns(r) ==
    LET j == JointStateStep(r)
        s == SplitStep(r)
        p == PlacementStep(r)
        m == MergeStep(r)
    IN  Then(j, Then(s, IF p.put THEN p ELSE Then(p, m)))

\* Mutant: the merge gate is evaluated at the top of the call.
CheckRegionCallGateFirst(r) ==
    LET g == IF MergeAllowed
             THEN Outcome(FALSE, <<>>, <<>>, {"merge"}, FALSE, {})
             ELSE Outcome(FALSE, <<>>, <<>>, {"merge"}, FALSE, {<<"merge", "merge">>})
        j == JointStateStep(r)
        s == SplitStep(r)
        p == PlacementStep(r)
        m == MergeStep(r)
    IN  Then(g, Then(j, Then(s, Then(p, m))))

\* the whole call
CheckRegionCall(r) ==
    LET j == JointStateStep(r)
        s == SplitStep(r)
        p == PlacementStep(r)
        m == MergeStep(r)
    IN  Then(j, Then(s, Then(p, m)))

\* the number of increments of operator.OperatorLimitCounter so far
LimitExceededTotal ==
    limitCounter[<<"rule", "replica">>] + limitCounter[<<"replica", "replica">>]
        + limitCounter[<<"merge", "merge">>]

\* History: this evaluation ends with the rule/replica fix limit-blocked.
FixBlocked ==
    /\ ~Answer("joint-state")
    /\ ~Answer("split")
    /\ \/ rulesEnabled /\ Answer("priority") /\ Answer("rule")
       \/ ~rulesEnabled /\ ~Answer("learner") /\ Answer("replica")
    /\ opCount["replica"] >= GetReplicaScheduleLimit

(***************************************************************************)
(* Initial states.  The controller is as NewCheckerController returns it;  *)
(* the collaborators are older than the controller.                        *)
(***************************************************************************)
Fresh ==
    /\ regionWaitingList = <<>>
    /\ priorityQueue = {}
    /\ limitCounter = [l \in CounterLabels |-> 0]
    /\ last = NoCall
    /\ lastBlocked = {}
    /\ paused = {}
    /\ pending = [w \in Workers |-> Idle]

\* a quiet cluster: no checker has anything to propose, nothing in flight
Init ==
    /\ verdict = [ch \in CheckerNames |-> FALSE]
    /\ rulesEnabled = FALSE
    /\ opCount = [k \in OpKinds |-> 0]
    /\ Fresh

\* any cluster, any options, any in-flight counts
InitCall ==
    /\ verdict \in [CheckerNames -> BOOLEAN]
    /\ rulesEnabled \in BOOLEAN
    /\ opCount \in [OpKinds -> 0..MaxOperatorCount]
    /\ Fresh

\* Checkers whose verdict varies in Spec and SpecAdmin: the ones that decide
\* a replica fix.
DriftCheckers == {"priority", "rule", "replica"}

\* a cluster in which only the replica-fix checkers may propose
InitAdmin ==
    /\ verdict \in {v \in [CheckerNames -> BOOLEAN] :
                      \A ch \in CheckerNames \ DriftCheckers : ~v[ch]}
    /\ rulesEnabled \in BOOLEAN
    /\ opCount \in [OpKinds -> 0..MaxOperatorCount]
    /\ Fresh

(***************************************************************************)
(* Operations of the controller                                            *)
(***************************************************************************)
\* the effects of one call on the controller and its collaborators
CheckRegionEffect(r) ==
    LET c == CheckRegionCall(r) IN
    /\ LimitExceededTotal + Cardinality(c.inc) <= MaxLimitExceeded
    /\ regionWaitingList' =
           IF c.put THEN CachePut(regionWaitingList, r) ELSE regionWaitingList
    /\ limitCounter' =
           [l \in CounterLabels |-> limitCounter[l] + (IF l \in c.inc THEN 1 ELSE 0)]
    /\ last' = [NoCall EXCEPT !.op = "CheckRegion", !.region = r, !.ops = c.ops,
                              !.consulted = c.consulted, !.reads = c.reads]
    /\ priorityQueue' =
           IF "priority" \in Range(c.consulted)
           THEN PriorityCheckQueue(priorityQueue, r) ELSE priorityQueue
    /\ lastBlocked' = IF FixBlocked THEN lastBlocked \cup {r} ELSE lastBlocked \ {r}
    /\ UNCHANGED <<verdict, rulesEnabled, opCount, paused>>

\* Mutant: a call that returns an operator for a region takes the region
\* off the waiting list.
CheckRegionRemovesOnReturn(r) ==
    LET c == CheckRegionCall(r) IN
    /\ LimitExceededTotal + Cardinality(c.inc) <= MaxLimitExceeded
    /\ regionWaitingList' =
          IF c.put THEN CachePut(regionWaitingList, r)
          ELSE IF c.ops # <<>> THEN CacheRemove(regionWaitingList, r)
          ELSE regionWaitingList
    /\ limitCounter' = [l \in CounterLabels |->
                          limitCounter[l] + (IF l \in c.inc THEN 1 ELSE 0)]
    /\ last' = [NoCall EXCEPT !.op = "CheckRegion", !.region = r,
                              !.ops = c.ops, !.consulted = c.consulted,
                              !.reads = c.reads]
    /\ priorityQueue' = IF "priority" \in Range(c.consulted)
                        THEN PriorityCheckQueue(priorityQueue, r)
                        ELSE priorityQueue
    /\ lastBlocked' = IF FixBlocked THEN lastBlocked \cup {r}
                      ELSE lastBlocked \ {r}
    /\ UNCHANGED <<verdict, rulesEnabled, opCount, paused, pending>>

\* a call whose result the driver admits or drops at once
CheckRegion(r) ==
    /\ CheckRegionEffect(r)
    /\ UNCHANGED pending

GetWaitingRegions ==
    /\ last' = [NoCall EXCEPT !.op = "GetWaitingRegions",
                              !.items = CacheElems(regionWaitingList)]
    /\ UNCHANGED <<paused, pending>>
    /\ UNCHANGED <<verdict, rulesEnabled, opCount, regionWaitingList,
                   priorityQueue, limitCounter, lastBlocked>>

AddWaitingRegion(r) ==
    /\ regionWaitingList' = CachePut(regionWaitingList, r)
    /\ last' = [NoCall EXCEPT !.op = "AddWaitingRegion", !.region = r]
    /\ UNCHANGED <<paused, pending>>
    /\ UNCHANGED <<verdict, rulesEnabled, opCount, priorityQueue, limitCounter,
                   lastBlocked>>

\* Mutant: the removal goes to the priority checker's queue.
RemoveWaitingRegionFromPriority(id) ==
    /\ priorityQueue' = priorityQueue \ {id}
    /\ last' = [NoCall EXCEPT !.op = "RemoveWaitingRegion", !.region = id]
    /\ UNCHANGED <<verdict, rulesEnabled, opCount, regionWaitingList,
                   limitCounter, lastBlocked, paused, pending>>

RemoveWaitingRegion(id) ==
    /\ regionWaitingList' = CacheRemove(regionWaitingList, id)
    /\ last' = [NoCall EXCEPT !.op = "RemoveWaitingRegion", !.region = id]
    /\ UNCHANGED <<paused, pending>>
    /\ UNCHANGED <<verdict, rulesEnabled, opCount, priorityQueue, limitCounter,
                   lastBlocked>>

GetPriorityRegions ==
    /\ last' = [NoCall EXCEPT !.op = "GetPriorityRegions", !.ids = priorityQueue]
    /\ UNCHANGED <<paused, pending>>
    /\ UNCHANGED <<verdict, rulesEnabled, opCount, regionWaitingList,
                   priorityQueue, limitCounter, lastBlocked>>

RemovePriorityRegions(id) ==
    /\ priorityQueue' = priorityQueue \ {id}
    /\ last' = [NoCall EXCEPT !.op = "RemovePriorityRegions", !.region = id]
    /\ UNCHANGED <<paused, pending>>
    /\ UNCHANGED <<verdict, rulesEnabled, opCount, regionWaitingList,
                   limitCounter, lastBlocked>>

\* Mutant: the default case falls back to the learner checker.
PauseControllerOfDefault(name) ==
    CASE name = "learner" -> <<"learner", "">>
      [] name = "replica" -> <<"replica", "">>
      [] name = "rule" -> <<"rule", "">>
      [] name = "split" -> <<"split", "">>
      [] name = "merge" -> <<"merge", "">>
      [] name = "joint-state" -> <<"joint-state", "">>
      [] name = "priority" -> <<"priority", "">>
      [] OTHER -> <<"learner", "">>

\* the switch of GetPauseController: the checker whose PauseController is
\* returned ("nil" for none) and the error ("" for nil)
PauseControllerOf(name) ==
    CASE name = "learner" -> <<"learner", "">>
      [] name = "replica" -> <<"replica", "">>
      [] name = "rule" -> <<"rule", "">>
      [] name = "split" -> <<"split", "">>
      [] name = "merge" -> <<"merge", "">>
      [] name = "joint-state" -> <<"joint-state", "">>
      [] name = "priority" -> <<"priority", "">>
      [] OTHER -> <<"nil", "ErrCheckerNotFound">>

GetPauseController(name) ==
    /\ last' = [NoCall EXCEPT !.op = "GetPauseController", !.name = name,
                              !.pause = PauseControllerOf(name)[1],
                              !.err = PauseControllerOf(name)[2]]
    /\ UNCHANGED <<paused, pending>>
    /\ UNCHANGED <<verdict, rulesEnabled, opCount, regionWaitingList,
                   priorityQueue, limitCounter, lastBlocked>>

\* the holder of the PauseController that GetPauseController(name) returned
\* pauses the checker (one checker is paused at a time)
PauseChecker(name) ==
    LET ch == PauseControllerOf(name)[1] IN
    /\ ch # "nil"
    /\ paused = {}
    /\ paused' = paused \cup {ch}
    /\ last' = NoCall
    /\ UNCHANGED <<verdict, rulesEnabled, opCount, regionWaitingList,
                   priorityQueue, limitCounter, lastBlocked, pending>>

\* the pause of the checker ends
ResumeChecker(name) ==
    LET ch == PauseControllerOf(name)[1] IN
    /\ ch \in paused
    /\ paused' = paused \ {ch}
    /\ last' = NoCall
    /\ UNCHANGED <<verdict, rulesEnabled, opCount, regionWaitingList,
                   priorityQueue, limitCounter, lastBlocked, pending>>

\* the category under which the operator controller counts an operator of
\* checker ch ("other": neither replica nor merge)
KindOf(ch) ==
    CASE ch \in {"rule", "replica"} -> "replica"
      [] ch = "merge" -> "merge"
      [] OTHER -> "other"

\* the operators of kind k among ops
CountOfKind(ops, k) ==
    Cardinality({i \in 1..Len(ops) : KindOf(ops[i].checker) = k})

\* patrol worker w calls CheckRegion(r) and holds what it returned
DriverCheck(w, r) ==
    /\ pending[w] = Idle
    /\ CheckRegionEffect(r)
    /\ pending' = [pending EXCEPT ![w] = CheckRegionCall(r).ops]

\* worker w hands the operators it holds to the operator controller, which
\* starts them
DriverAdmit(w) ==
    /\ pending[w] # Idle
    /\ opCount' = [k \in OpKinds |-> opCount[k] + CountOfKind(pending[w], k)]
    /\ pending' = [pending EXCEPT ![w] = Idle]
    /\ last' = NoCall
    /\ UNCHANGED <<verdict, rulesEnabled, regionWaitingList, priorityQueue,
                   limitCounter, lastBlocked, paused>>

(***************************************************************************)
(* The collaborators change between calls                                  *)
(***************************************************************************)
\* the cluster changes: checker ch now answers the opposite for the region
\* examined next
RegionChange(ch) ==
    /\ verdict' = [verdict EXCEPT ![ch] = ~@]
    /\ last' = NoCall
    /\ UNCHANGED <<paused, pending>>
    /\ UNCHANGED <<rulesEnabled, opCount, regionWaitingList, priorityQueue,
                   limitCounter, lastBlocked>>

\* placement rules are switched on or off in the configuration
SetPlacementRules ==
    /\ rulesEnabled' = ~rulesEnabled
    /\ last' = NoCall
    /\ UNCHANGED <<paused, pending>>
    /\ UNCHANGED <<verdict, opCount, regionWaitingList, priorityQueue,
                   limitCounter, lastBlocked>>

\* the operator controller admits an operator of kind k
OperatorAdded(k) ==
    /\ opCount[k] < MaxOperatorCount
    /\ opCount' = [opCount EXCEPT ![k] = @ + 1]
    /\ last' = NoCall
    /\ UNCHANGED <<paused, pending>>
    /\ UNCHANGED <<verdict, rulesEnabled, regionWaitingList, priorityQueue,
                   limitCounter, lastBlocked>>

\* an operator of kind k finishes
OperatorFinished(k) ==
    /\ opCount[k] > 0
    /\ opCount' = [opCount EXCEPT ![k] = @ - 1]
    /\ last' = NoCall
    /\ UNCHANGED <<paused, pending>>
    /\ UNCHANGED <<verdict, rulesEnabled, regionWaitingList, priorityQueue,
                   limitCounter, lastBlocked>>

\* the priority checker queues region r (its own bookkeeping)
PriorityEnqueue(r) ==
    /\ priorityQueue' = priorityQueue \cup {r}
    /\ last' = NoCall
    /\ UNCHANGED <<paused, pending>>
    /\ UNCHANGED <<verdict, rulesEnabled, opCount, regionWaitingList,
                   limitCounter, lastBlocked>>

(***************************************************************************)
(* Specifications                                                          *)
(***************************************************************************)
\* SpecCall: the decision policy of CheckRegion under every combination of
\* verdicts, rules flag and operator counts, on any waiting list.
NextCall ==
    \/ \E r \in RegionIDs : CheckRegion(r)
    \/ \E r \in RegionIDs : AddWaitingRegion(r)
    \/ \E id \in RegionIDs : RemoveWaitingRegion(id)

SpecCall == InitCall /\ [][NextCall]_vars

\* Spec: the waiting list over the life of the controller, while the
\* cluster, the options and the operator counts change.
Next ==
    \/ \E r \in RegionIDs : CheckRegion(r)
    \/ GetWaitingRegions
    \/ \E r \in RegionIDs : AddWaitingRegion(r)
    \/ \E id \in RegionIDs : RemoveWaitingRegion(id)
    \/ \E ch \in DriftCheckers : RegionChange(ch)
    \/ SetPlacementRules
    \/ \E k \in OpKinds : OperatorAdded(k)
    \/ \E k \in OpKinds : OperatorFinished(k)

Spec == Init /\ [][Next]_vars

\* SpecAdmin: every operation of the controller, on a cluster that does not
\* change.
NextAdmin ==
    \/ \E r \in RegionIDs : CheckRegion(r)
    \/ GetWaitingRegions
    \/ \E r \in RegionIDs : AddWaitingRegion(r)
    \/ \E id \in RegionIDs : RemoveWaitingRegion(id)
    \/ GetPriorityRegions
    \/ \E id \in RegionIDs : RemovePriorityRegions(id)
    \/ \E name \in LookupNames : GetPauseController(name)
    \/ \E r \in RegionIDs : PriorityEnqueue(r)

SpecAdmin == InitAdmin /\ [][NextAdmin]_vars

\* Checkers whose verdict varies in SpecDefer: every checker that can end
\* the call before the merge step, and the two that can defer.
DeferCheckers == {"joint-state", "split", "learner", "rule", "replica"}

\* a quiet cluster whose priority checker has a fit for every region
InitDefer ==
    /\ verdict = [ch \in CheckerNames |-> ch = "priority"]
    /\ rulesEnabled = FALSE
    /\ opCount = [k \in OpKinds |-> 0]
    /\ Fresh

\* SpecDefer: a waiting list that only CheckRegion fills, while the cluster,
\* the options and the replica operator count change.
NextDefer ==
    \/ \E r \in RegionIDs : CheckRegion(r)
    \/ \E id \in RegionIDs : RemoveWaitingRegion(id)
    \/ \E ch \in DeferCheckers : RegionChange(ch)
    \/ SetPlacementRules
    \/ OperatorAdded("replica")
    \/ OperatorFinished("replica")

SpecDefer == InitDefer /\ [][NextDefer]_vars

\* a quiet cluster under any options, each operator count at zero or at its
\* limit
InitPause ==
    /\ verdict = [ch \in CheckerNames |-> FALSE]
    /\ rulesEnabled \in BOOLEAN
    /\ opCount \in {c \in [OpKinds -> 0..MaxOperatorCount] :
                       /\ c["replica"] \in {0, GetReplicaScheduleLimit}
                       /\ c["merge"] \in {0, GetMergeScheduleLimit}}
    /\ Fresh

\* SpecPause: CheckRegion while checkers are paused and resumed and the
\* cluster changes.
NextPause ==
    \/ \E r \in RegionIDs : CheckRegion(r)
    \/ \E name \in LookupNames : PauseChecker(name)
    \/ \E name \in LookupNames : ResumeChecker(name)
    \/ \E ch \in CheckerNames : RegionChange(ch)

SpecPause == InitPause /\ [][NextPause]_vars

\* a cluster in which only the replica-fix checkers and the merge checker
\* may propose; nothing in flight
InitDriver ==
    /\ verdict \in {v \in [CheckerNames -> BOOLEAN] :
                      \A ch \in CheckerNames \ (DriftCheckers \cup {"merge"}) :
                         ~v[ch]}
    /\ rulesEnabled \in BOOLEAN
    /\ opCount = [k \in OpKinds |-> 0]
    /\ Fresh

\* SpecDriver: the patrol workers of the driver call CheckRegion
\* concurrently; what a call returned is admitted later, in any order. A
\* call reads the operator counts and nothing else changes them but
\* DriverAdmit and OperatorFinished, so a call interleaved with them sees
\* what a call wholly before or wholly after them sees.
NextDriver ==
    \/ \E w \in Workers, r \in RegionIDs : DriverCheck(w, r)
    \/ \E w \in Workers : DriverAdmit(w)
    \/ \E k \in OpKinds : OperatorFinished(k)

SpecDriver == InitDriver /\ [][NextDriver]_vars

(***************************************************************************)
(* Properties                                                              *)
(***************************************************************************)
\* the last call was a CheckRegion (the collaborators are as the call saw
\* them: every change of a collaborator resets last)
IsCheck == last.op = "CheckRegion"

\* the checker that decides the replica fix under the current options
FixChecker == IF rulesEnabled THEN "rule" ELSE "replica"

\* the replica fix was proposed in the call: its checker was consulted and
\* answered with an operator
FixProposedIn(call) ==
    /\ FixChecker \in Range(call.consulted)
    /\ verdict[FixChecker]

\* the two operators of a merge of region r
MergePair(r) == <<Op("merge", r, 1), Op("merge", r, 2)>>

\* C1: whenever the joint-state checker proposes an action, CheckRegion
\* returns exactly that one action, whatever the other checkers, the limits
\* and the rules flag are.
C1_JointStateFirst ==
    (IsCheck /\ verdict["joint-state"])
        => last.ops = <<Op("joint-state", last.region, 1)>>

\* C1 witness: a call in which every checker would propose and the
\* joint-state action alone came back.
C1_Witness ==
    /\ IsCheck
    /\ \A ch \in CheckerNames : verdict[ch]
    /\ last.ops = <<Op("joint-state", last.region, 1)>>

\* C2: one call never consults both a checker of {priority, rule} and one
\* of {learner, replica}; with rules enabled only the first pair can be
\* consulted, with rules disabled only the second.
C2_BranchesExclusive ==
    IsCheck =>
        LET c == Range(last.consulted) IN
        /\ ~(c \cap {"priority", "rule"} # {} /\ c \cap {"learner", "replica"} # {})
        /\ rulesEnabled => c \cap {"learner", "replica"} = {}
        /\ ~rulesEnabled => c \cap {"priority", "rule"} = {}

\* C2 witness: rules enabled, the rule checker consulted and declining,
\* while the learner and replica checkers would both propose.
C2_Witness ==
    /\ IsCheck
    /\ rulesEnabled
    /\ "rule" \in Range(last.consulted)
    /\ ~verdict["rule"] /\ verdict["learner"] /\ verdict["replica"]
    /\ "merge" \in Range(last.consulted)

\* C3: when the rule checker (rules enabled) or the replica checker (rules
\* disabled) proposes its action in a call and the in-flight replica count
\* is at or above the replica schedule limit, the action is not in the
\* result, the region is on the waiting list after the call and the replica
\* limit-exceeded counter of that checker went up by one.
C3_GateAtCapacity ==
    [][ (/\ last'.op = "CheckRegion"
         /\ FixProposedIn(last')
         /\ opCount["replica"] >= GetReplicaScheduleLimit)
        => /\ Op(FixChecker, last'.region, 1) \notin Range(last'.ops)
           /\ last'.region \in Range(regionWaitingList')
           /\ limitCounter'[<<FixChecker, "replica">>]
                 = limitCounter[<<FixChecker, "replica">>] + 1 ]_vars

\* C3 witness: a blocked fix whose call still returned the merge pair; the
\* region is queued and the counter stands above zero.
C3_Witness ==
    /\ IsCheck
    /\ FixProposedIn(last)
    /\ opCount["replica"] >= GetReplicaScheduleLimit
    /\ last.region \in Range(regionWaitingList)
    /\ limitCounter[<<FixChecker, "replica">>] > 0
    /\ last.ops = MergePair(last.region)

\* C4: when the rule or replica checker proposes its action in a call and
\* the in-flight replica count is below the limit, the result is exactly
\* that action, and the waiting list and all counters are as before.
C4_GateUnderCapacity ==
    [][ (/\ last'.op = "CheckRegion"
         /\ FixProposedIn(last')
         /\ opCount["replica"] < GetReplicaScheduleLimit)
        => /\ last'.ops = <<Op(FixChecker, last'.region, 1)>>
           /\ regionWaitingList' = regionWaitingList
           /\ limitCounter' = limitCounter ]_vars

\* C4 witness: the count is limit - 1, the fix came back, and the waiting
\* list holds another region.
C4_Witness ==
    /\ IsCheck
    /\ FixProposedIn(last)
    /\ opCount["replica"] = GetReplicaScheduleLimit - 1
    /\ last.ops = <<Op(FixChecker, last.region, 1)>>
    /\ regionWaitingList # <<>>
    /\ last.region \notin Range(regionWaitingList)

\* C5: in a call that reaches the merge step, (a) below the merge limit a
\* proposed pair is returned whole, (b) at or above the limit the result is
\* empty and the merge counter goes up by one, (c) the result never holds
\* exactly one action.
C5_MergeAtomic ==
    [][ (last'.op = "CheckRegion" /\ "merge" \in last'.reads)
        => /\ (opCount["merge"] < GetMergeScheduleLimit /\ verdict["merge"])
                  => last'.ops = MergePair(last'.region)
           /\ opCount["merge"] >= GetMergeScheduleLimit
                  => /\ last'.ops = <<>>
                     /\ limitCounter'[<<"merge", "merge">>]
                           = limitCounter[<<"merge", "merge">>] + 1
           /\ Len(last'.ops) # 1 ]_vars

\* C5 witness: the merge step was reached and both operators came back.
C5_Witness ==
    /\ IsCheck
    /\ "merge" \in last.reads
    /\ opCount["merge"] < GetMergeScheduleLimit
    /\ last.ops = MergePair(last.region)

\* C9 as claimed: a call whose rule/replica fix is blocked by the replica
\* limit returns the empty result, whatever the merge limit and the merge
\* checker say.
C9_BlockedReturnsNothing ==
    (IsCheck /\ FixBlocked) => last.ops = <<>>

\* C9: a call whose rule/replica fix is blocked by the replica limit
\* returns no rule/replica action: the result is the merge pair when the
\* merge limit allows a merge and the merge checker proposes one, and empty
\* otherwise.
C9_BlockedFallsToMerge ==
    (IsCheck /\ FixBlocked)
        => last.ops =
              IF opCount["merge"] < GetMergeScheduleLimit /\ verdict["merge"]
              THEN MergePair(last.region) ELSE <<>>

\* C9 witness: a blocked fix, the region queued, the merge pair returned.
C9_Witness ==
    /\ IsCheck
    /\ FixBlocked
    /\ last.region \in Range(regionWaitingList)
    /\ Len(last.ops) = 2

\* no checker has an action to propose for the region (the priority
\* checker's fit may be present or absent)
AllDecline == \A ch \in CheckerNames \ {"priority"} : ~verdict[ch]

SevenNames ==
    {"learner", "replica", "rule", "split", "merge", "joint-state", "priority"}

\* C7: GetPauseController returns the pause control of the checker of that
\* name and no error for exactly the seven names, no pause control and
\* CheckerNotFound for every other string, and changes no state.
C7_PauseLookup ==
    [][ last'.op = "GetPauseController"
        => /\ last'.name \in SevenNames
                 => last'.pause = last'.name /\ last'.err = ""
           /\ last'.name \notin SevenNames
                 => last'.pause = "nil" /\ last'.err = "ErrCheckerNotFound"
           /\ UNCHANGED <<paused, pending>>
           /\ UNCHANGED <<verdict, rulesEnabled, opCount, regionWaitingList,
                          priorityQueue, limitCounter>> ]_vars

\* C7 witness: the near miss "joint_state" was looked up and refused, on a
\* controller whose waiting list and priority queue are not empty.
C7_Witness ==
    /\ last.op = "GetPauseController"
    /\ last.name = "joint_state"
    /\ last.pause = "nil"
    /\ last.err = "ErrCheckerNotFound"
    /\ regionWaitingList # <<>>
    /\ priorityQueue # {}

\* the capacity the waiting list is configured with
ConfiguredCapacity == Min(DefaultCacheSize, MaxCacheSize)

\* the step puts a new identifier on the waiting list: AddWaitingRegion, or
\* the deferral of a CheckRegion call
PutsNew(id) ==
    /\ \/ last'.op = "AddWaitingRegion"
       \/ last'.op = "CheckRegion" /\ FixBlocked
    /\ last'.region = id
    /\ id \notin Range(regionWaitingList)

C10_MembershipMeansBlocked == Range(regionWaitingList) \subseteq lastBlocked

\* C10: a region identifier comes onto the waiting list only by
\* AddWaitingRegion of that region or by a CheckRegion evaluation of that
\* region whose rule/replica fix was blocked by the replica schedule limit.
C10_EntersByDeferralOrAdd ==
    [][ \A id \in Range(regionWaitingList') \ Range(regionWaitingList) :
           /\ last'.region = id
           /\ \/ last'.op = "AddWaitingRegion"
              \/ last'.op = "CheckRegion" /\ FixBlocked ]_vars

\* C10 witness: the region just evaluated is on the waiting list although
\* this evaluation was not blocked.
C10_Witness ==
    /\ IsCheck
    /\ ~FixBlocked
    /\ last.region \in Range(regionWaitingList)
    /\ last.region \notin lastBlocked
    /\ last.ops # <<>>

\* C13: every CheckRegion call returns 0, 1 or 2 actions; an action of the
\* joint-state, split, rule, learner or replica checker is the only action
\* of its result, only the merge checker's actions come as two, and the
\* call carries no error.
C13_ResultCardinality ==
    IsCheck =>
        /\ Len(last.ops) \in {0, 1, 2}
        /\ \A i \in 1..Len(last.ops) :
              last.ops[i].checker # "merge" => Len(last.ops) = 1
        /\ Len(last.ops) = 2 => \A i \in 1..2 : last.ops[i].checker = "merge"
        /\ last.err = ""

\* C13 witness: the learner checker's single action came back although the
\* replica and merge checkers would propose as well.
C13_Witness ==
    /\ IsCheck
    /\ last.ops = <<Op("learner", last.region, 1)>>
    /\ verdict["replica"] /\ verdict["merge"]
    /\ ReplicaAllowed /\ MergeAllowed

\* the call returns from the joint-state or the split step
EarlyReturn == verdict["joint-state"] \/ verdict["split"]

\* C14: when the joint-state checker declines and the split checker
\* proposes, the result is exactly the split action; a call that returns
\* from the joint-state or split step consults no lower-priority checker,
\* reads neither the rules flag nor a limit, and leaves the waiting list and
\* every counter as they were.
C14_EarlyReturnNoEffect ==
    [][ last'.op = "CheckRegion"
        => /\ (~verdict["joint-state"] /\ verdict["split"])
                 => last'.ops = <<Op("split", last'.region, 1)>>
           /\ EarlyReturn
                 => /\ Range(last'.consulted) \subseteq {"joint-state", "split"}
                    /\ verdict["joint-state"] => last'.consulted = <<"joint-state">>
                    /\ last'.reads = {}
                    /\ regionWaitingList' = regionWaitingList
                    /\ limitCounter' = limitCounter ]_vars

\* C14 witness: the split action came back while both limits were reached,
\* every lower checker would propose and the waiting list holds a region.
C14_Witness ==
    /\ IsCheck
    /\ last.ops = <<Op("split", last.region, 1)>>
    /\ \A ch \in CheckerNames \ {"joint-state"} : verdict[ch]
    /\ ~ReplicaAllowed /\ ~MergeAllowed
    /\ regionWaitingList # <<>>
    /\ LimitExceededTotal = 0

\* what the merge step alone yields for region r
MergeAlone(r) == IF MergeAllowed /\ verdict["merge"] THEN MergePair(r) ELSE <<>>

\* C15: with rules enabled and an absent fit, the call does not consult the
\* rule, learner or replica checker, leaves the waiting list and the replica
\* counters alone, and its result is the one of the merge step.
C15_AbsentFitSkipsRule ==
    [][ (/\ last'.op = "CheckRegion"
         /\ rulesEnabled /\ ~EarlyReturn /\ ~verdict["priority"])
        => /\ Range(last'.consulted) \cap {"rule", "learner", "replica"} = {}
           /\ "priority" \in Range(last'.consulted)
           /\ regionWaitingList' = regionWaitingList
           /\ \A t \in {"rule", "replica"} :
                 limitCounter'[<<t, "replica">>] = limitCounter[<<t, "replica">>]
           /\ "merge" \in last'.reads
           /\ last'.ops = MergeAlone(last'.region) ]_vars

\* C15 witness: absent fit, the rule checker would propose at a reached
\* replica limit, and the merge pair came back.
C15_Witness ==
    /\ IsCheck
    /\ rulesEnabled /\ ~EarlyReturn /\ ~verdict["priority"]
    /\ verdict["rule"] /\ ~ReplicaAllowed
    /\ last.region \notin Range(regionWaitingList)
    /\ last.ops = MergePair(last.region)

\* position of checker ch in the order of consultation (0: not consulted)
ConsultedAt(call, ch) ==
    IF ch \in Range(call.consulted)
    THEN CHOOSE i \in 1..Len(call.consulted) : call.consulted[i] = ch
    ELSE 0

\* C16: with rules disabled and joint-state and split declining, the learner
\* checker is consulted before the replica checker, and its proposal is
\* returned alone without any limit being read, the replica checker not
\* consulted, waiting list and counters untouched; joint-state and split
\* proposals are not limit-gated either.
C16_LearnerNotGated ==
    [][ last'.op = "CheckRegion"
        => /\ (~rulesEnabled /\ ~EarlyReturn)
                 => /\ ConsultedAt(last', "learner") > 0
                    /\ ConsultedAt(last', "replica") > 0
                          => ConsultedAt(last', "learner") < ConsultedAt(last', "replica")
                    /\ verdict["learner"]
                          => /\ last'.ops = <<Op("learner", last'.region, 1)>>
                             /\ "replica" \notin Range(last'.consulted)
                             /\ last'.reads \cap {"replica", "merge"} = {}
                             /\ regionWaitingList' = regionWaitingList
                             /\ limitCounter' = limitCounter
           /\ EarlyReturn
                 => /\ Len(last'.ops) = 1
                    /\ last'.reads \cap {"replica", "merge"} = {} ]_vars

\* C16 witness: the learner action came back with the in-flight replica
\* count above the limit and the replica checker ready to propose.
C16_Witness ==
    /\ IsCheck
    /\ ~rulesEnabled /\ ~EarlyReturn
    /\ verdict["learner"] /\ verdict["replica"]
    /\ opCount["replica"] > GetReplicaScheduleLimit
    /\ last.ops = <<Op("learner", last.region, 1)>>

\* C17: a call that reaches the merge step with the in-flight merge count
\* at or above the merge limit does not consult the merge checker and
\* increments the merge counter by exactly one, whatever the merge checker
\* would say; a replica counter goes up only in a call in which the rule or
\* replica checker proposed.
C17_MergeGateBeforeConsult ==
    [][ last'.op = "CheckRegion"
        => /\ ("merge" \in last'.reads /\ opCount["merge"] >= GetMergeScheduleLimit)
                 => /\ "merge" \notin Range(last'.consulted)
                    /\ limitCounter'[<<"merge", "merge">>]
                          = limitCounter[<<"merge", "merge">>] + 1
           /\ \A t \in {"rule", "replica"} :
                 limitCounter'[<<t, "replica">>] # limitCounter[<<t, "replica">>]
                    => /\ FixProposedIn(last')
                       /\ t = FixChecker ]_vars

\* C17 witness: one call incremented both counters (fix blocked, merge
\* gate closed) although the merge checker would have proposed.
C17_Witness ==
    /\ IsCheck
    /\ FixBlocked
    /\ verdict["merge"] /\ ~MergeAllowed
    /\ limitCounter[<<FixChecker, "replica">>] = 1
    /\ limitCounter[<<"merge", "merge">>] = 1
    /\ last.ops = <<>>

\* the labels under which CheckRegion counts a limit-blocked step
UsedLabels == {<<"rule", "replica">>, <<"replica", "replica">>, <<"merge", "merge">>}

\* C18: a counter changes only in a CheckRegion call and only by going up
\* by one; the (rule, replica) counter only with rules enabled and the rule
\* checker consulted, the (replica, replica) counter only with rules
\* disabled and the replica checker consulted, the (merge, merge) counter
\* only at the merge gate; no other label and no other operation of the
\* controller changes a counter, and no counter ever decreases.
C18_CounterLabels ==
    [][ \A l \in CounterLabels :
           /\ limitCounter'[l] >= limitCounter[l]
           /\ limitCounter'[l] # limitCounter[l]
                 => /\ last'.op = "CheckRegion"
                    /\ limitCounter'[l] = limitCounter[l] + 1
                    /\ l \in UsedLabels
                    /\ l = <<"rule", "replica">>
                          => rulesEnabled /\ "rule" \in Range(last'.consulted)
                    /\ l = <<"replica", "replica">>
                          => ~rulesEnabled /\ "replica" \in Range(last'.consulted)
                    /\ l = <<"merge", "merge">>
                          => "merge" \in last'.reads /\ ~MergeAllowed ]_vars

\* C18 witness: with rules enabled the (rule, replica) counter has been
\* incremented twice, the (replica, replica) counter never, and operations
\* other than CheckRegion have run since.
C18_Witness ==
    /\ rulesEnabled
    /\ limitCounter[<<"rule", "replica">>] = 2
    /\ limitCounter[<<"replica", "replica">>] = 0
    /\ last.op = "RemoveWaitingRegion"
    /\ regionWaitingList = <<>>
    /\ priorityQueue # {}

\* C19: a CheckRegion call never takes an identifier off the waiting list
\* unless its own deferral of another region evicts it from a full list: the
\* region it examined stays listed whatever the call returns, and an
\* identifier leaves the list only by RemoveWaitingRegion of it or by the
\* insertion of a new identifier into a full list.
C19_CheckRegionNeverRemoves ==
    [][ /\ (last'.op = "CheckRegion"
              /\ last'.region \in Range(regionWaitingList))
           => last'.region \in Range(regionWaitingList')
        /\ \A id \in Range(regionWaitingList) \ Range(regionWaitingList') :
              \/ last'.op = "RemoveWaitingRegion" /\ last'.region = id
              \/ /\ PutsNew(last'.region)
                 /\ last'.region # id
                 /\ Len(regionWaitingList) = ConfiguredCapacity ]_vars

\* C19 witness: a region that only a deferral can have listed is still
\* listed after a call that returned the joint-state action for it.
C19_Witness ==
    /\ IsCheck
    /\ last.region \in Range(regionWaitingList)
    /\ last.ops = <<Op("joint-state", last.region, 1)>>
    /\ last.region \notin lastBlocked

\* the operations on the waiting list
WaitingListOps == {"GetWaitingRegions", "AddWaitingRegion", "RemoveWaitingRegion"}

\* C20: the waiting list is a set kept apart from the priority queue:
\* putting a listed region again (AddWaitingRegion or deferral) keeps
\* members and size, removing an unlisted id changes nothing, a removed id
\* is absent, GetWaitingRegions changes nothing, no waiting-list operation
\* changes the priority queue and no priority-queue operation changes the
\* waiting list.
C20_SetApartFromQueue ==
    [][ /\ Len(regionWaitingList') = Cardinality(Range(regionWaitingList'))
        /\ ( /\ \/ last'.op = "AddWaitingRegion"
                \/ last'.op = "CheckRegion" /\ FixBlocked
             /\ last'.region \in Range(regionWaitingList) )
           => /\ Range(regionWaitingList') = Range(regionWaitingList)
              /\ Len(regionWaitingList') = Len(regionWaitingList)
        /\ last'.op = "RemoveWaitingRegion"
           => /\ last'.region \notin Range(regionWaitingList')
              /\ last'.region \notin Range(regionWaitingList)
                    => regionWaitingList' = regionWaitingList
        /\ last'.op = "GetWaitingRegions"
           => /\ regionWaitingList' = regionWaitingList
              /\ limitCounter' = limitCounter
              /\ Range(last'.items) = Range(regionWaitingList)
        /\ last'.op \in WaitingListOps => priorityQueue' = priorityQueue
        /\ last'.op \in {"GetPriorityRegions", "RemovePriorityRegions"}
           => regionWaitingList' = regionWaitingList ]_vars

\* C20 witness: a region that is in the priority queue was added to the
\* waiting list and removed from it again; it is off the list and still in
\* the queue.
C20_Witness ==
    /\ last.op = "RemoveWaitingRegion"
    /\ last.region \in priorityQueue
    /\ last.region \notin Range(regionWaitingList)
    /\ regionWaitingList # <<>>
    /\ LimitExceededTotal > 0

\* the step pauses checker ch and nothing else changes at the checkers
PauseStepOf(ch) ==
    /\ ch \notin paused
    /\ paused' = paused \cup {ch}
    /\ verdict' = verdict

\* the step changes what the paused checker ch would answer if it ran
HiddenChangeOf(ch) ==
    /\ ch \in paused
    /\ paused' = paused
    /\ verdict' = [verdict EXCEPT ![ch] = ~@]

\* checker ch, unpaused, proposes no action for the region examined next
\* (the priority checker never does: it answers with a fit)
ProposesNothing(ch) == ch = "priority" \/ ~verdict[ch]

\* the call gets as far as the placement step
PlacementReached == ~Answer("joint-state") /\ ~Answer("split")

\* C11 as stated: pausing a checker that proposes nothing leaves every call
\* as it was (the same checkers consulted, the same result and effects),
\* and what a paused checker would propose has no influence on a call.
C11_PauseRemovesOnlyOwn ==
    [][ \A ch \in paused' :
           /\ (PauseStepOf(ch) /\ ProposesNothing(ch))
                 => \A r \in RegionIDs : CheckRegionCall(r)' = CheckRegionCall(r)
           /\ HiddenChangeOf(ch)
                 => \A r \in RegionIDs : CheckRegionCall(r)' = CheckRegionCall(r)
      ]_vars

\* C11: pausing a checker other than the priority checker that proposes
\* nothing leaves every call as it was, and what a paused checker would
\* propose has no influence on a call; pausing the priority checker makes
\* its fit absent, so that a call that reaches the placement step with rules
\* enabled does not consult the rule checker either: it neither returns a
\* rule action nor defers nor counts, and its result is the merge step's;
\* every other call stays as it was.
C11_PauseRemovesOwnAndFit ==
    [][ \A ch \in paused' :
           /\ (PauseStepOf(ch) /\ ch # "priority" /\ ~verdict[ch])
                 => \A r \in RegionIDs : CheckRegionCall(r)' = CheckRegionCall(r)
           /\ HiddenChangeOf(ch)
                 => \A r \in RegionIDs : CheckRegionCall(r)' = CheckRegionCall(r)
           /\ (PauseStepOf(ch) /\ ch = "priority")
                 => \A r \in RegionIDs :
                       IF rulesEnabled /\ PlacementReached
                       THEN /\ CheckRegionCall(r)' =
                                 Then(JointStateStep(r),
                                   Then(SplitStep(r),
                                     Then(Outcome(FALSE, <<>>, <<"priority">>,
                                                  {"rules"}, FALSE, {}),
                                          MergeStep(r))))
                            /\ "rule" \notin Range(CheckRegionCall(r)'.consulted)
                       ELSE CheckRegionCall(r)' = CheckRegionCall(r) ]_vars

\* C11 witness: with the priority checker paused, a call on a region for
\* which the unpaused rule checker has a proposal and the replica limit has
\* room did not consult the rule checker.
C11_Witness ==
    /\ IsCheck
    /\ paused = {"priority"}
    /\ rulesEnabled
    /\ verdict["priority"] /\ verdict["rule"]
    /\ PlacementReached
    /\ ReplicaAllowed
    /\ "rule" \notin Range(last.consulted)
    /\ \A i \in 1..Len(last.ops) : last.ops[i].checker = "merge"

\* the schedule limit of kind k
LimitOf(k) == IF k = "replica" THEN GetReplicaScheduleLimit ELSE GetMergeScheduleLimit

\* the size of the action set one call returns for kind k
SetSizeOf(k) == IF k = "replica" THEN 1 ELSE 2

\* C12: the in-flight count of a category goes beyond its limit by what
\* overlapping calls return on a count read below the limit, and by no
\* more: starting at most at limit - 1, one action set per overlapping call
\* is admitted, so the count never exceeds
\* limit - 1 + (set size) * (number of workers).
C12_SoftLimitBounded ==
    \A k \in OpKinds :
        opCount[k] <= LimitOf(k) - 1 + SetSizeOf(k) * Cardinality(Workers)

\* C12 witness: every worker's call returned a replica action on a count
\* of limit - 1, all were admitted, and the in-flight replica count is above
\* the limit by the number of workers less one; the merge count went over
\* its limit the same way.
C12_Witness ==
    /\ \A w \in Workers : pending[w] = Idle
    /\ opCount["replica"] = GetReplicaScheduleLimit - 1 + Cardinality(Workers)
    /\ opCount["replica"] > GetReplicaScheduleLimit
    /\ opCount["merge"] > GetMergeScheduleLimit

====
